---- MODULE Spec2Model ----
(***************************************************************************)
(* cargo-aws-lambda: the deployment driver (src/main.rs, main) and the     *)
(* CloudWatch log tail loop in its two variants, main.rs tail_logs and     *)
(* logs.rs tail.  A run of the driver tails with one of the two.           *)
(***************************************************************************)
EXTENDS Integers, Sequences, FiniteSets, TLC

\* ------------------------------------------------------------------ bounds
MaxCalls == 3          \* query calls issued before the model stops polling
MaxEvents == 2         \* events in one query response
ClockStart == 1000000  \* wall clock (ms since the epoch) at process start

\* ------------------------------------------------------- program constants
SafetyMargin == 5 * 60 * 1000     \* unix(): - 5 * 60 * 1000
PollInterval == 3000              \* Duration::from_millis(3000)
PageLimit == 10000                \* limit: Some(10000)
I64_MAX == 2147483647             \* ::std::i64::MAX, at the width TLC's integers have
ExitFailure == 1                  \* process::exit(1)
ExitPanic == 101                  \* exit status of a Rust process whose main thread panicked
ArnParts == 7                     \* raw.split(":").count() != 7

\* Option<T>: None, or Some(x) for x in T.
None == <<>>
Some(x) == <<x>>
Unwrap(o) == o[1]
Options(S) == {None} \cup {Some(x) : x \in S}

\* ------------------------------------------------------------------ inputs
Variants == {"main", "logs"}      \* main.rs tail_logs, logs.rs tail
EventIds == {"41", "42"}
Messages == {"m\n"}
Tokens == {"T"}
QueryErrors == {"E1", "E2"}
Latencies == {0, 250}             \* time a blocking call may take, ms
FunctionNames == {"f"}            \* function names the platform knows

\* Timestamps an event may carry, around the instant u the tail started.
Timestamps(u) == {u, u + 1}

\* FilteredLogEvent: every field is an Option.  An event without an id is
\* drawn once: both loops unwrap the id before they look at anything else.
Events(u) ==
    [event_id : {Some(i) : i \in EventIds}, message : Options(Messages),
     timestamp : Options(Timestamps(u))]
    \cup {[event_id |-> None, message |-> None, timestamp |-> None]}

\* FilterLogEventsResponse: events is Option<Vec<FilteredLogEvent>>.  The loop
\* reads the events one at a time and never looks ahead, so a response is drawn
\* as the number of its events and its next_token, and each event is drawn when
\* the loop reaches it.
Responses ==
    [events : Options(0..MaxEvents), next_token : Options(Tokens)]

\* Result<FilterLogEventsResponse, RusotoError>
QueryResults ==
    {[ok |-> TRUE, val |-> r] : r \in Responses}
    \cup {[ok |-> FALSE, val |-> e] : e \in QueryErrors}

\* ------------------------------------------------------------ the tail loop
\* unix() without the safety margin.
Mut_unix_NoMargin(now) == now

\* let unix = || now().as_millis() as i64 - 5 * 60 * 1000
unix(now) == now - SafetyMargin

\* let mut next_token = None; let mut start_time = Some(unix()); let mut seen = HashSet::new();
\* out, req, err, epoch and calls record what the loop did: the text printed
\* (with the call and the position of the event printed), the last request
\* sent, the error returned, the number of windows exhausted so far and the
\* number of query calls made.
TailInit(now) ==
    [status |-> "running", next_token |-> None, start_time |-> Some(unix(now)),
     seen |-> {}, out |-> <<>>, req |-> None, err |-> None, epoch |-> 0,
     calls |-> 0]

\* A request that never carries the token.
Mut_BuildRequest_NoToken(function_name, st) ==
    [end_time |-> None, filter_pattern |-> None, limit |-> PageLimit,
     log_group_name |-> "/aws/lambda/" \o function_name,
     log_stream_name_prefix |-> None, log_stream_names |-> None,
     next_token |-> None, start_time |-> st.start_time]

\* A request for the log group named by the function name alone.
Mut_BuildRequest_BareGroup(function_name, st) ==
    [end_time |-> None, filter_pattern |-> None, limit |-> PageLimit,
     log_group_name |-> function_name,
     log_stream_name_prefix |-> None, log_stream_names |-> None,
     next_token |-> st.next_token, start_time |-> st.start_time]

\* FilterLogEventsRequest { .. }
BuildRequest(function_name, st) ==
    [end_time |-> None, filter_pattern |-> None, limit |-> PageLimit,
     log_group_name |-> "/aws/lambda/" \o function_name,
     log_stream_name_prefix |-> None, log_stream_names |-> None,
     next_token |-> st.next_token, start_time |-> st.start_time]

\* An error that is dropped instead of returned.
Mut_QueryFailed_Ignored(st, e) == st

\* logs_client.filter_log_events(input).sync()?  on Err: return Err(e.into())
QueryFailed(st, e) == [st EXCEPT !.status = "failed", !.err = Some(e)]

\* The call itself: the request is sent, then ? returns on an error.
OnQuery(function_name, st, result) ==
    LET sent == [st EXCEPT !.req = Some(BuildRequest(function_name, st)),
                           !.calls = @ + 1]
    IN  IF result.ok THEN sent ELSE QueryFailed(sent, result.val)

\* The condition without the membership test.
Mut_ShouldEmit_NoDedup(v, st, e, user_time) ==
    LET ts == IF e.timestamp = None THEN I64_MAX ELSE Unwrap(e.timestamp)
    IN  v = "logs" => ts > user_time

\* The loop's condition on an event whose id is present.
\*   main.rs: !seen.contains(id)
\*   logs.rs: !seen.contains(id) && ts > user_time, ts = timestamp.unwrap_or(i64::MAX)
ShouldEmit(v, st, e, user_time) ==
    LET ts == IF e.timestamp = None THEN I64_MAX ELSE Unwrap(e.timestamp)
    IN  /\ Unwrap(e.event_id) \notin st.seen
        /\ (v = "logs" => ts > user_time)

\* Output that is collected newest first.
Mut_Emit_Prepend(st, e, call, pos) ==
    [st EXCEPT !.out = <<[message |-> Unwrap(e.message),
                          event_id |-> Unwrap(e.event_id),
                          call |-> call, pos |-> pos, epoch |-> st.epoch]>> \o @,
               !.seen = @ \cup {Unwrap(e.event_id)}]

\* A message printed whose id is not inserted.
Mut_Emit_NoInsert(st, e, call, pos) ==
    [st EXCEPT !.out = Append(@, [message |-> Unwrap(e.message),
                                  event_id |-> Unwrap(e.event_id),
                                  call |-> call, pos |-> pos, epoch |-> st.epoch])]

\* print!("{}", event.message.unwrap()); seen.insert(event.event_id.unwrap().clone());
Emit(st, e, call, pos) ==
    [st EXCEPT !.out = Append(@, [message |-> Unwrap(e.message),
                                  event_id |-> Unwrap(e.event_id),
                                  call |-> call, pos |-> pos, epoch |-> st.epoch]),
               !.seen = @ \cup {Unwrap(e.event_id)}]

\* One pass of the body of `for event in events`.  unwrap() of None panics.
OnEvent(v, st, e, call, pos, user_time) ==
    IF e.event_id = None THEN [st EXCEPT !.status = "panicked"]
    ELSE IF ~ShouldEmit(v, st, e, user_time) THEN st
    ELSE IF e.message = None THEN [st EXCEPT !.status = "panicked"]
    ELSE Emit(st, e, call, pos)

\* The loop of spec.md section 4.1: seen.clear() when the window is exhausted.
Mut_OnResponseEnd_ClearSeen(st, token, now) ==
    IF token = None
    THEN [st EXCEPT !.next_token = None, !.start_time = Some(unix(now)),
                    !.epoch = @ + 1, !.seen = {}]
    ELSE [st EXCEPT !.next_token = token]

\* A window that is advanced after every response.
Mut_OnResponseEnd_AdvanceAlways(st, token, now) ==
    IF token = None
    THEN [st EXCEPT !.next_token = None, !.start_time = Some(unix(now)),
                    !.epoch = @ + 1]
    ELSE [st EXCEPT !.next_token = token, !.start_time = Some(unix(now))]

\* A window that is never advanced.
Mut_OnResponseEnd_KeepStart(st, token, now) ==
    IF token = None
    THEN [st EXCEPT !.next_token = None, !.epoch = @ + 1]
    ELSE [st EXCEPT !.next_token = token]

\* next_token = res.next_token; if next_token.is_none() { start_time = Some(unix()); }
OnResponseEnd(st, token, now) ==
    IF token = None
    THEN [st EXCEPT !.next_token = None, !.start_time = Some(unix(now)),
                    !.epoch = @ + 1]
    ELSE [st EXCEPT !.next_token = token]

TailIdle ==
    [status |-> "idle", next_token |-> None, start_time |-> None,
     seen |-> {}, out |-> <<>>, req |-> None, err |-> None, epoch |-> 0,
     calls |-> 0]

\* ------------------------------------------------------------- the driver
\* A string the driver splits is a sequence of pieces, ":" being the separator.
Colon == ":"

RECURSIVE Str(_)
Str(s) == IF s = <<>> THEN "" ELSE Head(s) \o Str(Tail(s))

\* raw.split(":").collect::<Vec<_>>()
RECURSIVE Split(_)
Split(s) ==
    IF s = <<>> THEN <<"">>
    ELSE LET rest == Split(Tail(s))
         IN  IF Head(s) = Colon THEN <<"">> \o rest
             ELSE <<Head(s) \o Head(rest)>> \o Tail(rest)

FullArn ==
    <<"arn", Colon, "aws", Colon, "lambda", Colon, "eu-north-1", Colon, "1234",
      Colon, "function", Colon, "f">>
ArnInputs ==
    {FullArn, <<"prod">>, <<"dev">>, <<"arn", Colon, "aws", Colon, "lambda">>}
\* Lambda.toml: absent, or its [arns] table.
TomlInputs ==
    {None, Some([key \in {"prod"} |-> FullArn]), Some([key \in {} |-> FullArn])}

\* parse_arn: exits with 1 unless the ARN has seven fields; (region, func_name).
parse_arn(raw) ==
    LET arn == Split(raw)
    IN  IF Len(arn) # ArnParts THEN [exit |-> Some(ExitFailure), region |-> "", func_name |-> ""]
        ELSE [exit |-> None, region |-> arn[4], func_name |-> arn[7]]

\* parse_arn_or_key: a key of Lambda.toml's [arns] when raw is no ARN.
parse_arn_or_key(raw, toml) ==
    IF /\ Len(Split(raw)) # ArnParts
       /\ toml # None
       /\ Str(raw) \in DOMAIN Unwrap(toml)
    THEN parse_arn(Unwrap(toml)[Str(raw)])
    ELSE parse_arn(raw)

\* Tailing whatever the flag says.
Mut_TailsAfterUpload_NoFlag(upload_ok, flag) == upload_ok

\* A build whose exit status is not looked at.
Mut_BuildFailed_Ignored(status) == FALSE

\* if !success { eprintln!(..); process::exit(1); }
BuildFailed(status) == ~status

\* if let Ok(res) = res { .. if opt.tail_logs { .. tail_logs(..) } }
TailsAfterUpload(upload_ok, flag) == upload_ok /\ flag

VARIABLES
    dpc,            \* where main() is
    tail_logs,      \* opt.tail_logs
    target,         \* (region, func_name) parsed from FUNCTION_ARN
    upload,         \* what update_function_code returned, once it has
    function_name,  \* the name handed to the tail loop
    exit_code,      \* the status the process ended with
    stderr,         \* what the driver wrote to standard error
    docker,         \* check_docker: whether docker --version succeeded, once run
    success,        \* whether the docker build exited successfully, once run
    clock,          \* the wall clock, ms
    deploy_start,   \* the wall clock when the process started
    user_time,      \* logs.rs: the wall clock when tail started
    active,         \* the variants of the tail loop that were started
    eng,            \* the state of each variant of the tail loop
    lpc,            \* where the tail loop is
    res,            \* the response being processed
    idx,            \* the events of res processed so far
    ncalls,         \* query calls made
    last,           \* what the last query call returned: its error or next_token
    reading,        \* the last value of the wall clock that unix() read
    nsleeps         \* sleeps the tail loop has made

vars ==
    <<dpc, tail_logs, target, upload, function_name, exit_code, stderr, docker, success, clock,
      deploy_start, user_time, active, eng, lpc, res, idx, ncalls, last, reading,
      nsleeps>>
driver_vars ==
    <<dpc, tail_logs, target, upload, function_name, exit_code, stderr, docker, success>>
loop_vars == <<user_time, active, eng, lpc, res, idx, ncalls, last, reading, nsleeps>>

Init ==
    /\ dpc = "check_docker"
    /\ tail_logs = FALSE
    /\ target = None
    /\ upload = None
    /\ function_name = ""
    /\ exit_code = None
    /\ stderr = <<>>
    /\ docker = None
    /\ success = None
    /\ clock = ClockStart
    /\ deploy_start = ClockStart
    /\ user_time = 0
    /\ active = {}
    /\ eng = [v \in Variants |-> TailIdle]
    /\ lpc = "idle"
    /\ res = None
    /\ idx = 0
    /\ ncalls = 0
    /\ last = None
    /\ reading = None
    /\ nsleeps = 0

\* process::exit(code) after eprintln!(msg)
Exit(code, msg) ==
    /\ dpc' = "exited"
    /\ exit_code' = Some(code)
    /\ stderr' = IF msg = "" THEN stderr ELSE Append(stderr, msg)

Goto(stage) == dpc' = stage /\ UNCHANGED <<exit_code, stderr>>

\* check_docker()
CheckDocker ==
    /\ dpc = "check_docker"
    /\ \E ok \in BOOLEAN :
         /\ docker' = Some(ok)
         /\ IF ok THEN Goto("args") ELSE Exit(ExitFailure, "Docker missing")
    /\ UNCHANGED <<tail_logs, target, upload, function_name, clock, deploy_start, success>>
    /\ UNCHANGED loop_vars

\* let opt = Opt::from_iter(args); if opt.use_build_volume { .. }
ParseArgs ==
    /\ dpc = "args"
    /\ \E valid \in BOOLEAN, flag \in BOOLEAN, use_build_volume \in BOOLEAN :
         IF ~valid THEN Exit(ExitFailure, "error: invalid arguments") /\ UNCHANGED tail_logs
         ELSE /\ tail_logs' = flag
              /\ Goto(IF use_build_volume THEN "build_volume" ELSE "parse_arn")
    /\ UNCHANGED <<target, upload, function_name, clock, deploy_start, docker, success>>
    /\ UNCHANGED loop_vars

\* manage_build_volume(): docker volume inspect, then docker volume create.
ManageBuildVolume ==
    /\ dpc = "build_volume"
    /\ \E inspect \in BOOLEAN, create \in BOOLEAN :
         IF inspect \/ create THEN Goto("parse_arn")
         ELSE Exit(ExitFailure, "Failed to create docker build volume")
    /\ UNCHANGED <<tail_logs, target, upload, function_name, clock, deploy_start, docker, success>>
    /\ UNCHANGED loop_vars

\* let (region, func_name) = parse_arn_or_key(&opt.arn);
ParseArn ==
    /\ dpc = "parse_arn"
    /\ \E raw \in ArnInputs, toml \in TomlInputs :
         LET r == parse_arn_or_key(raw, toml)
         IN  IF r.exit # None
             THEN Exit(Unwrap(r.exit), "Unidentified ARN") /\ UNCHANGED target
             ELSE Goto("docker_run") /\ target' = Some(<<r.region, r.func_name>>)
    /\ UNCHANGED <<tail_logs, upload, function_name, clock, deploy_start, docker, success>>
    /\ UNCHANGED loop_vars

\* env::var("CARGO_HOME").expect(..), then
\* Command::new("docker").args(args).env("BIN", &opt.bin).status_bool()
DockerRun ==
    /\ dpc = "docker_run"
    /\ \E cargo_home \in BOOLEAN, status \in BOOLEAN, d \in Latencies :
         IF ~cargo_home
         THEN Exit(ExitPanic, "Missing CARGO_HOME") /\ UNCHANGED <<clock, success>>
         ELSE /\ clock' = clock + d
              /\ success' = Some(status)
              /\ IF BuildFailed(status)
                 THEN Exit(ExitFailure, "Running docker failed, check output above")
                 ELSE Goto("read_zip")
    /\ UNCHANGED <<tail_logs, target, upload, function_name, deploy_start, docker>>
    /\ UNCHANGED loop_vars

\* File::open(zip_path).expect("Can't open zip path"), read_to_end(..).unwrap()
ReadZip ==
    /\ dpc = "read_zip"
    /\ \E ok \in BOOLEAN :
         IF ok THEN Goto("upload") ELSE Exit(ExitPanic, "Can't open zip path")
    /\ UNCHANGED <<tail_logs, target, upload, function_name, clock, deploy_start, docker, success>>
    /\ UNCHANGED loop_vars

\* create_lambda_client(..), client.update_function_code(req).sync(), and the
\* report of its result.
Upload ==
    /\ dpc = "upload"
    /\ \E client \in BOOLEAN, ok \in BOOLEAN, name \in Options(FunctionNames) :
         IF ~client
         THEN Exit(ExitPanic, "failed to create request dispatcher") /\ UNCHANGED upload
         ELSE /\ upload' = Some([ok |-> ok, function_name |-> IF ok THEN name ELSE None])
              /\ IF ok THEN Goto("deployed")
                 ELSE Exit(ExitFailure, "===== Deploy FAILED =====")
    /\ UNCHANGED <<tail_logs, target, function_name, clock, deploy_start, docker, success>>
    /\ UNCHANGED loop_vars

UploadOk == upload # None /\ Unwrap(upload).ok

\* main returns when --tail-logs is not set.
Finish ==
    /\ dpc = "deployed"
    /\ ~TailsAfterUpload(UploadOk, tail_logs)
    /\ dpc' = "exited"
    /\ exit_code' = Some(0)
    /\ UNCHANGED <<tail_logs, target, upload, function_name, stderr, clock, deploy_start, docker, success>>
    /\ UNCHANGED loop_vars

\* create_logs_client(..) failed: expect() panics before the loop is entered.
NoLogsClient ==
    /\ dpc = "deployed"
    /\ TailsAfterUpload(UploadOk, tail_logs)
    /\ Exit(ExitPanic, "failed to create request dispatcher")
    /\ UNCHANGED <<tail_logs, target, upload, function_name, clock, deploy_start, docker, success>>
    /\ UNCHANGED loop_vars

\* tail_logs(&func_name, &logs_client): the statements before the loop.
\* logs.rs reads the clock for user_time, then for start_time: the same millisecond.
StartTail ==
    /\ dpc = "deployed"
    /\ TailsAfterUpload(UploadOk, tail_logs)
    /\ dpc' = "tail"
    \* let func_name = res.function_name.unwrap_or("".into());
    /\ function_name' = IF Unwrap(upload).function_name = None THEN ""
                        ELSE Unwrap(Unwrap(upload).function_name)
    /\ \E v \in Variants : active' = {v}
    /\ user_time' = clock
    /\ reading' = Some(clock)
    /\ eng' = [v \in Variants |-> IF v \in active' THEN TailInit(clock) ELSE TailIdle]
    /\ lpc' = "query"
    /\ UNCHANGED <<tail_logs, target, upload, exit_code, stderr, clock,
                   deploy_start, docker, success, res, idx, ncalls, last, nsleeps>>

Running(v) == eng[v].status = "running"
SomeRunning == \E v \in active : Running(v)

\* What a query call returned, without the events.
Returned(result) ==
    IF result.ok
    THEN [ok |-> TRUE, next_token |-> result.val.next_token, err |-> None]
    ELSE [ok |-> FALSE, next_token |-> None, err |-> Some(result.val)]

\* The request is built and the call made; it returns an error or a response.
Query ==
    /\ lpc = "query"
    /\ ncalls < MaxCalls
    /\ SomeRunning
    /\ \E result \in QueryResults, d \in Latencies :
         /\ clock' = clock + d
         /\ eng' = [v \in Variants |->
                      IF Running(v) THEN OnQuery(function_name, eng[v], result)
                      ELSE eng[v]]
         /\ ncalls' = ncalls + 1
         /\ last' = Some(Returned(result))
         /\ IF result.ok
            THEN /\ res' = Some(result.val)
                 /\ lpc' = IF result.val.events = None THEN "end" ELSE "events"
            ELSE /\ res' = None
                 /\ lpc' = "done"
    /\ idx' = 0
    /\ UNCHANGED driver_vars
    /\ UNCHANGED <<deploy_start, user_time, active, reading, nsleeps>>

\* for event in events { .. }: the next event, or the end of the events.
NextEvent ==
    /\ lpc = "events"
    /\ SomeRunning
    /\ IF idx < Unwrap(Unwrap(res).events)
       THEN /\ \E e \in Events(user_time) :
                 /\ eng' = [v \in Variants |->
                              IF Running(v)
                              THEN OnEvent(v, eng[v], e, ncalls, idx + 1, user_time)
                              ELSE eng[v]]
            /\ idx' = idx + 1
            /\ lpc' = lpc
       ELSE /\ lpc' = "end"
            /\ UNCHANGED <<eng, idx>>
    /\ UNCHANGED driver_vars
    /\ UNCHANGED <<clock, deploy_start, user_time, active, res, ncalls, last, reading,
                   nsleeps>>

\* A loop that asks for the next page at once.
Mut_AfterResponse_NoSleepOnToken(token) == IF token = None THEN "sleep" ELSE "query"

\* The statement after `if next_token.is_none() { .. }`, whatever the token:
\* ::std::thread::sleep(..)
AfterResponse(token) == "sleep"

\* next_token = res.next_token; if next_token.is_none() { start_time = Some(unix()); }
ResponseEnd ==
    /\ lpc = "end"
    /\ SomeRunning
    /\ eng' = [v \in Variants |->
                 IF Running(v) THEN OnResponseEnd(eng[v], Unwrap(res).next_token, clock)
                 ELSE eng[v]]
    /\ reading' = IF Unwrap(res).next_token = None THEN Some(clock) ELSE reading
    /\ res' = None
    /\ idx' = 0
    /\ lpc' = AfterResponse(Unwrap(res).next_token)
    /\ UNCHANGED driver_vars
    /\ UNCHANGED <<clock, deploy_start, user_time, active, ncalls, last, nsleeps>>

\* ::std::thread::sleep(Duration::from_millis(3000));
Sleep ==
    /\ lpc = "sleep"
    /\ clock' = clock + PollInterval
    /\ nsleeps' = nsleeps + 1
    /\ lpc' = "query"
    /\ UNCHANGED driver_vars
    /\ UNCHANGED <<deploy_start, user_time, active, eng, res, idx, ncalls, last, reading>>

\* A report that leaves the error out.
Mut_TailErrorReport_NoDetail(e) == "Failed to tail logs"

\* eprintln!("Failed to tail logs:\n{:?}", e)
TailErrorReport(e) == "Failed to tail logs:\n" \o e

\* if let Err(e) = tail_logs(..) { eprintln!("Failed to tail logs:\n{:?}", e); exit(1) }
TailFailed ==
    /\ dpc = "tail"
    /\ \E v \in active :
         /\ eng[v].status = "failed"
         /\ Exit(ExitFailure, TailErrorReport(Unwrap(eng[v].err)))
    /\ UNCHANGED <<tail_logs, target, upload, function_name, clock, deploy_start, docker, success>>
    /\ UNCHANGED loop_vars

\* A panic in tail_logs unwinds main.
TailPanicked ==
    /\ dpc = "tail"
    /\ \E v \in active : eng[v].status = "panicked"
    /\ Exit(ExitPanic, "")
    /\ UNCHANGED <<tail_logs, target, upload, function_name, clock, deploy_start, docker, success>>
    /\ UNCHANGED loop_vars

Next ==
    \/ CheckDocker
    \/ ParseArgs
    \/ ManageBuildVolume
    \/ ParseArn
    \/ DockerRun
    \/ ReadZip
    \/ Upload
    \/ Finish
    \/ NoLogsClient
    \/ StartTail
    \/ Query
    \/ NextEvent
    \/ ResponseEnd
    \/ Sleep
    \/ TailFailed
    \/ TailPanicked

Spec == Init /\ [][Next]_vars

\* ------------------------------------------------------------------ claims
Out(v) == eng[v].out
EmittedIds(v) == {Out(v)[i].event_id : i \in 1..Len(Out(v))}
\* The step that makes a query call, and the step that processes an event.
QueryStep == ncalls' = ncalls + 1
EventStep == lpc = "events" /\ idx' = idx + 1
LastOk == last # None /\ Unwrap(last).ok
Exhausted == LastOk /\ Unwrap(last).next_token = None

\* C1: between two consecutive epoch resets (from the start to the first
\* response without a next_token, and from one such response to the next) no
\* event_id is printed twice, whatever the responses repeat.
C1_NoDuplicateInEpoch ==
    \A v \in Variants : \A i, j \in 1..Len(Out(v)) :
        (i # j /\ Out(v)[i].epoch = Out(v)[j].epoch)
            => Out(v)[i].event_id # Out(v)[j].event_id

\* Scenario A: the second response, a continuation of the first, returned an
\* event again and tail_logs printed nothing for it.
C1_Witness ==
    /\ active = {"main"} /\ Running("main")
    /\ ncalls = 2 /\ idx >= 1
    /\ eng["main"].epoch = 0
    /\ Len(Out("main")) = 1 /\ Out("main")[1].call = 1

C3_WindowAdvanced ==
    [][(QueryStep /\ Exhausted) =>
        \A v \in active : Running(v) =>
            /\ Unwrap(eng'[v].req).next_token = None
            /\ Unwrap(eng'[v].req).start_time = Some(Unwrap(reading) - SafetyMargin)]_vars

\* The second request was sent with no token and a start_time later than the
\* first request's.
C3_Witness ==
    \E v \in active :
        /\ ncalls = 2 /\ lpc \in {"events", "end"}
        /\ Unwrap(eng[v].req).next_token = None
        /\ Unwrap(reading) > user_time
        /\ Unwrap(eng[v].req).start_time = Some(Unwrap(reading) - SafetyMargin)

\* C4: every request after the first carries the next_token the call before
\* it returned, whether the clock advanced in between or not.
C4_TokenPropagated ==
    [][(QueryStep /\ last # None) =>
        \A v \in active : Running(v) =>
            Unwrap(eng'[v].req).next_token = Unwrap(last).next_token]_vars

\* A request carried the token T of the response before it, sent after the
\* clock had moved on.
C4_Witness ==
    \E v \in active :
        /\ ncalls >= 2 /\ lpc \in {"events", "end"}
        /\ Unwrap(eng[v].req).next_token = Some("T")
        /\ clock > Unwrap(reading)

\* C5: a query call that returns an error ends the loop with that error: the
\* loop prints nothing for the call, keeps what it printed for the calls
\* before it, and makes no further call.
C5_FatalOnError ==
    [][/\ (QueryStep /\ ~Unwrap(last').ok) =>
            \A v \in active : Running(v) =>
                /\ eng'[v].status = "failed"
                /\ eng'[v].err = Unwrap(last').err
                /\ eng'[v].out = eng[v].out
                /\ \A i \in 1..Len(eng'[v].out) : eng'[v].out[i].call < ncalls'
       /\ \A v \in active : eng[v].status = "failed" =>
            (ncalls' = ncalls /\ eng'[v] = eng[v])]_vars

\* Scenario C: the third call failed after the first two had printed.
C5_Witness ==
    \E v \in active :
        /\ eng[v].status = "failed" /\ eng[v].err = Some("E2")
        /\ ncalls = 3 /\ eng[v].calls = 3
        /\ \E i, j \in 1..Len(Out(v)) : Out(v)[i].call = 1 /\ Out(v)[j].call = 2

\* C6: the output is in the order the events were received: by response, and
\* within a response by position.
C6_OrderPreserved ==
    \A v \in Variants : \A i, j \in 1..Len(Out(v)) :
        i < j => \/ Out(v)[i].call < Out(v)[j].call
                 \/ /\ Out(v)[i].call = Out(v)[j].call
                    /\ Out(v)[i].pos < Out(v)[j].pos

\* Two events of one response were printed, the second response's after the
\* first's.
C6_Witness ==
    \E v \in active :
        /\ Len(Out(v)) = 2
        /\ Out(v)[1].call = 2 /\ Out(v)[2].call = 2
        /\ Out(v)[1].pos = 1 /\ Out(v)[2].pos = 2

\* C7 as stated: an event of a response that carries an id is printed while
\* the response is processed exactly when its id is not in the dedup set; no
\* other condition keeps it from the output.
C7_EmittedIffUnseen ==
    [][EventStep =>
        \A v \in active, e \in Events(user_time) :
            (/\ Running(v)
             /\ e.event_id # None
             /\ eng'[v] = OnEvent(v, eng[v], e, ncalls, idx + 1, user_time))
                => (Len(eng'[v].out) = Len(eng[v].out) + 1
                        <=> Unwrap(e.event_id) \notin eng[v].seen)]_vars

\* C8 as stated: the loop ends only by returning a query error, whatever
\* events the responses contain.
C8_EndsOnlyOnQueryError ==
    \A v \in active : eng[v].status \in {"running", "failed"}

\* C9: a log query is made only after update_function_code returned Ok and
\* only with --tail-logs; a failed upload ends the process with a nonzero
\* status and no log query; without the flag no log query is made.
C9_TailOnlyAfterDeploy ==
    /\ (ncalls > 0 \/ active # {}) => (UploadOk /\ tail_logs)
    /\ (upload # None /\ ~UploadOk) =>
          (exit_code # None /\ Unwrap(exit_code) # 0 /\ ncalls = 0 /\ active = {})
    /\ ~tail_logs => ncalls = 0

\* A log query was made after a successful upload with --tail-logs.
C9_Witness == ncalls > 0 /\ UploadOk /\ tail_logs

\* C10 as stated: the first request carries no next_token and the time the
\* deploy started as start_time.
C10_FirstRequestSinceDeployStart ==
    \A v \in active :
        (ncalls = 1 /\ eng[v].calls = 1) =>
            /\ Unwrap(eng[v].req).next_token = None
            /\ Unwrap(eng[v].req).start_time = Some(deploy_start)

\* C10, amended: the first request carries no next_token, and as start_time
\* the wall clock read when the tail loop starts, after the upload, minus the
\* 5-minute margin; the driver hands over no time.
C10_FirstRequestSinceTailStart ==
    \A v \in active :
        (ncalls = 1 /\ eng[v].calls = 1 /\ lpc \in {"events", "end", "done"}) =>
            /\ Unwrap(eng[v].req).next_token = None
            /\ Unwrap(eng[v].req).start_time = Some(Unwrap(reading) - SafetyMargin)
            /\ Unwrap(reading) = user_time

\* The first request was sent by a loop that started after the deploy had
\* taken some time.
C10_Witness ==
    \E v \in active :
        /\ ncalls = 1 /\ eng[v].calls = 1 /\ lpc \in {"events", "end", "done"}
        /\ user_time > deploy_start
        /\ Unwrap(eng[v].req).start_time = Some(user_time - SafetyMargin)

\* C11 as stated: whenever the driver has started the tail loop, the name it
\* passed is not empty, and neither is the function the log group of a
\* request names, whatever the upload response contained.
C11_StreamIdNonEmpty ==
    active # {} =>
        /\ function_name # ""
        /\ \A v \in active : eng[v].req # None =>
              Unwrap(eng[v].req).log_group_name # "/aws/lambda/"

\* C12: once the tail loop has returned a query error the driver does nothing
\* but report and exit: when the process has exited, the last line on standard
\* error is the report with that error in it and the status is not zero; and
\* from the error on no loop is started, no query call is made and the loop's
\* state stays as it returned.
C12_ReportThenExitNonzero ==
    [][\A v \in active : eng[v].status = "failed" =>
          /\ eng'[v] = eng[v] /\ active' = active /\ ncalls' = ncalls
          /\ dpc' \in {"tail", "exited"}
          /\ dpc' = "tail" => (exit_code' = None /\ stderr' = stderr)
          /\ dpc' = "exited" =>
                /\ exit_code' # None /\ Unwrap(exit_code') # 0
                /\ stderr' # <<>>
                /\ stderr'[Len(stderr')] =
                      "Failed to tail logs:\n" \o Unwrap(eng[v].err)]_vars

\* Scenario C: the process exited with 1 after the second call failed with
\* E1, the report on standard error, what was printed before still printed.
C12_Witness ==
    \E v \in active :
        /\ eng[v].status = "failed" /\ eng[v].err = Some("E1") /\ ncalls = 2
        /\ dpc = "exited" /\ exit_code = Some(ExitFailure)
        /\ stderr = <<"Failed to tail logs:\nE1">>
        /\ Len(Out(v)) >= 1

\* C14: the dedup set changes only while an event is processed, by the
\* insertion of one id that was not in it, together with the printing of that
\* event's message at the end of the output; nothing is printed without such
\* an insertion; and whenever the loop is at the top of an iteration the set is
\* exactly the set of ids printed since it was last empty, which is since the
\* loop started.
C14_SeenIsWhatWasEmitted ==
    [][\A v \in Variants :
          /\ (eng'[v].seen # eng[v].seen \/ eng'[v].out # eng[v].out) =>
                /\ EventStep
                /\ \E id \in EventIds :
                      /\ id \notin eng[v].seen
                      /\ eng'[v].seen = eng[v].seen \cup {id}
                      /\ Len(eng'[v].out) = Len(eng[v].out) + 1
                      /\ SubSeq(eng'[v].out, 1, Len(eng[v].out)) = eng[v].out
                      /\ eng'[v].out[Len(eng'[v].out)].event_id = id
          /\ (lpc' = "query" /\ v \in active') =>
                eng'[v].seen = {eng'[v].out[i].event_id : i \in 1..Len(eng'[v].out)}]_vars

\* At the top of the third iteration the set holds the two ids printed, one
\* in each of the first two iterations.
C14_Witness ==
    \E v \in active :
        /\ lpc = "query" /\ Running(v) /\ ncalls = 2
        /\ eng[v].seen = {"41", "42"}
        /\ Len(Out(v)) = 2 /\ Out(v)[1].call = 1 /\ Out(v)[2].call = 2

\* The response being processed carries a next_token.
ProcessingTokenResponse == res # None /\ Unwrap(res).next_token # None

\* C15: while a response that carries a next_token is processed, start_time
\* stays as it is and no id leaves the dedup set: a pass over an event changes
\* nothing but the set and the output, the end of the response nothing but
\* next_token, which becomes the response's; and the request that follows
\* carries the start_time of the request before it.
C15_TokenResponseFrame ==
    [][/\ ProcessingTokenResponse =>
            \A v \in active : Running(v) =>
                /\ eng'[v].start_time = eng[v].start_time
                /\ eng[v].seen \subseteq eng'[v].seen
                /\ eng'[v].seen \subseteq
                      {eng'[v].out[i].event_id : i \in 1..Len(eng'[v].out)}
                /\ (lpc = "events" /\ eng'[v].status = "running") =>
                      eng'[v] = [eng[v] EXCEPT !.seen = eng'[v].seen,
                                               !.out = eng'[v].out]
                /\ lpc = "end" =>
                      eng'[v] = [eng[v] EXCEPT !.next_token = Unwrap(res).next_token]
       /\ (QueryStep /\ LastOk /\ Unwrap(last).next_token # None) =>
            \A v \in active : Running(v) =>
                Unwrap(eng'[v].req).start_time = Unwrap(eng[v].req).start_time]_vars

\* The second request followed a response with a token in which an event was
\* printed: it was sent later, with the token and the first request's
\* start_time.
C15_Witness ==
    \E v \in active :
        /\ ncalls = 2 /\ lpc \in {"events", "end"} /\ Running(v)
        /\ Unwrap(eng[v].req).next_token = Some("T")
        /\ Unwrap(eng[v].req).start_time = Some(user_time - SafetyMargin)
        /\ clock >= user_time + PollInterval
        /\ \E i \in 1..Len(Out(v)) : Out(v)[i].call = 1

\* C16: every request of the tail loop names the log group "/aws/lambda/"
\* followed by the function name the loop was started with, asks for pages of
\* 10000 and sets no end_time, no filter pattern and no stream names or
\* prefix; the name does not change while the loop runs, so two requests
\* differ in next_token and start_time at most.
C16_RequestShape ==
    [][\A v \in active' :
          /\ active # {} => function_name' = function_name
          /\ eng'[v].req # None =>
                LET r == Unwrap(eng'[v].req)
                IN  /\ r.log_group_name = "/aws/lambda/" \o function_name'
                    /\ r.limit = 10000
                    /\ r.end_time = None /\ r.filter_pattern = None
                    /\ r.log_stream_name_prefix = None /\ r.log_stream_names = None
                    /\ (v \in active /\ eng[v].req # None) =>
                          r = [Unwrap(eng[v].req) EXCEPT
                                 !.next_token = r.next_token,
                                 !.start_time = r.start_time]]_vars

\* The third request, in a later epoch: the group of the first, another
\* start_time.
C16_Witness ==
    \E v \in active :
        /\ ncalls = 3 /\ eng[v].calls = 3 /\ eng[v].epoch >= 1
        /\ Unwrap(eng[v].req).log_group_name = "/aws/lambda/f"
        /\ Unwrap(eng[v].req).start_time # Some(user_time - SafetyMargin)

\* C17: the loop has slept as many times as it has made query calls when it
\* makes the next one, so none before the first call and exactly one between
\* two consecutive calls, whether the response in between carried a
\* next_token or not; each sleep takes 3000 ms and changes nothing else of the
\* loop; after a call that failed the loop does not sleep.
C17_OneSleepBetweenQueries ==
    [][/\ QueryStep => nsleeps = ncalls
       /\ nsleeps' # nsleeps =>
            /\ nsleeps' = nsleeps + 1
            /\ clock' = clock + 3000
            /\ eng' = eng /\ ncalls' = ncalls
            /\ LastOk
       /\ (\E v \in active : eng[v].status = "failed") =>
            (nsleeps' = nsleeps /\ nsleeps = ncalls - 1)]_vars

\* The third call failed: the loop slept twice, once after a response with a
\* token and once after a response without, and not after the failure.
C17_Witness ==
    \E v \in active :
        /\ eng[v].status = "failed" /\ ncalls = 3 /\ nsleeps = 2
        /\ eng[v].epoch = 1
        /\ dpc = "exited"

\* C18: update_function_code is called only when docker --version succeeded
\* and the docker build exited successfully; a build that failed ends the
\* process with status 1, no upload call and no log query made.
C18_UploadAfterBuild ==
    /\ (dpc = "upload" \/ upload # None) =>
          (docker = Some(TRUE) /\ success = Some(TRUE))
    /\ success # None => docker = Some(TRUE)
    /\ success = Some(FALSE) =>
          /\ dpc = "exited" /\ exit_code = Some(1)
          /\ upload = None /\ ncalls = 0 /\ active = {}

\* The build took its time and the upload call was made after it.
C18_Witness ==
    /\ upload # None /\ docker = Some(TRUE) /\ success = Some(TRUE)
    /\ clock > deploy_start

\* The build failed and the process has exited with status 1.
C18_WitnessBuildFailed ==
    success = Some(FALSE) /\ exit_code = Some(1) /\ upload = None

\* C19 as stated: when logs.rs tail processes an event that carries an id, an
\* event whose timestamp is at most user_time is neither printed nor inserted
\* into the dedup set, and an event without a timestamp whose id is not in the
\* set is printed and inserted.
C19_OnlyNewerEventsEmitted ==
    [][EventStep =>
        \A e \in Events(user_time) :
            (/\ "logs" \in active /\ Running("logs")
             /\ e.event_id # None
             /\ eng'["logs"] = OnEvent("logs", eng["logs"], e, ncalls, idx + 1, user_time))
                => /\ (e.timestamp # None /\ Unwrap(e.timestamp) <= user_time) =>
                        /\ eng'["logs"].out = eng["logs"].out
                        /\ eng'["logs"].seen = eng["logs"].seen
                   /\ (e.timestamp = None /\ Unwrap(e.event_id) \notin eng["logs"].seen) =>
                        /\ Len(eng'["logs"].out) = Len(eng["logs"].out) + 1
                        /\ Unwrap(e.event_id) \in eng'["logs"].seen]_vars

\* C20: over the whole run of the tail loop, in one epoch or across epochs, no
\* event_id is printed twice: an event returned again after a response without
\* a next_token is not printed again.
C20_NoDuplicateEver ==
    \A v \in Variants :
        Cardinality(EmittedIds(v)) = Len(Out(v))

\* An event printed in the first epoch was returned again by the second call,
\* in the next epoch, and tail_logs printed nothing for it.
C20_Witness ==
    /\ active = {"main"} /\ Running("main")
    /\ ncalls = 2 /\ idx >= 1
    /\ eng["main"].epoch = 1 /\ Unwrap(last).next_token = None
    /\ Len(Out("main")) = 1 /\ Out("main")[1].epoch = 0

\* ------------------------------------------------- the two variants together
\* tail_logs (main.rs) and tail (logs.rs) started at the same instant with the
\* same function name, and fed the same clock and the same query results.
InitPair ==
    /\ dpc = "tail"
    /\ tail_logs = TRUE
    /\ target = Some(<<"eu-north-1", "f">>)
    /\ upload = Some([ok |-> TRUE, function_name |-> Some("f")])
    /\ function_name = "f"
    /\ exit_code = None
    /\ stderr = <<>>
    /\ docker = Some(TRUE)
    /\ success = Some(TRUE)
    /\ clock \in {ClockStart + d : d \in Latencies}
    /\ deploy_start = ClockStart
    /\ user_time = clock
    /\ active = Variants
    /\ eng = [v \in Variants |-> TailInit(clock)]
    /\ lpc = "query"
    /\ res = None
    /\ idx = 0
    /\ ncalls = 0
    /\ last = None
    /\ reading = Some(clock)
    /\ nsleeps = 0

NextPair ==
    \/ Query
    \/ NextEvent
    \/ ResponseEnd
    \/ Sleep

SpecPair == InitPair /\ [][NextPair]_vars

\* The event has no timestamp, or one after the instant the tail started.
Newer(e) == e.timestamp = None \/ Unwrap(e.timestamp) > user_time

\* C21 as stated: side by side the two variants have sent the same requests,
\* as many of them, and one has failed exactly when the other has, with the
\* same error; and a pass over an event whose timestamp is absent or after the
\* start of the tail, made by variants that agreed on output and dedup set,
\* leaves them agreeing on both.
C21_VariantsAgree ==
    [][/\ eng'["main"].req = eng'["logs"].req
       /\ eng'["main"].calls = eng'["logs"].calls
       /\ eng'["main"].err = eng'["logs"].err
       /\ eng'["main"].status = "failed" <=> eng'["logs"].status = "failed"
       /\ EventStep =>
            \A e \in Events(user_time) :
                (/\ Newer(e)
                 /\ eng["main"].out = eng["logs"].out
                 /\ eng["main"].seen = eng["logs"].seen
                 /\ \A v \in Variants :
                       Running(v) /\ eng'[v] = OnEvent(v, eng[v], e, ncalls, idx + 1, user_time))
                    => /\ eng'["main"].out = eng'["logs"].out
                       /\ eng'["main"].seen = eng'["logs"].seen]_vars

====
